---- MODULE Spec2Model ----
(***************************************************************************)
(* State-machine model of src/crawler.py: the multithreaded crawl of       *)
(* search_all_urls (fetcher threads, one processor thread, the progress    *)
(* thread), crawl_site's retry loop, the robots gate and the vote weights. *)
(*                                                                         *)
(* Strings the code inspects character by character (site roots, paths)    *)
(* are sequences of tokens: a scheme, "://", host labels, ".", "/" and     *)
(* path segments. No token used below is a suffix or a prefix of another,  *)
(* so endswith / startswith on tokens agree with Python's on characters.   *)
(* Vote weights are counted in hundredths (0.1 -> 10, 0.25 -> 25, 1 -> 100).*)
(***************************************************************************)
EXTENDS Integers, Sequences, FiniteSets, TLC

\* ---------------------------------------------------------------- bounds
MaxFetchers == 2      \* largest number of fetcher threads started
MaxDepth == 2         \* largest max_depth typed at the prompt
MaxCalls == 2         \* largest number of calls of search_all_urls in one process

\* ------------------------------------------------------ program constants
retries == 3          \* crawl_site(..., retries=3, ...)
SameRootWeight == 10  \* return 0.1
SubdomainWeight == 25 \* return 0.25
OtherWeight == 100    \* return 1

\* ----------------------------------------------------------------- URLs
\* A parsed URL: urlparse(url).scheme, .netloc split on '.', .path tokens.
Url(scheme, labels, path) == [scheme |-> scheme, netloc |-> labels, path |-> path]

UrlS == Url("https", <<"a", "com">>, <<"/">>)
UrlX == Url("https", <<"a", "com">>, <<"/", "x">>)
UrlP == Url("https", <<"a", "com">>, <<"/", "private">>)
UrlY == Url("https", <<"b", "com">>, <<"/", "y">>)
UrlZ == Url("https", <<"shop", "a", "com">>, <<"/", "z">>)
UrlQ == Url("https", <<"b", "com">>, <<"/", "private">>)
AllUrls == {UrlS, UrlX, UrlP, UrlY, UrlZ, UrlQ}

RECURSIVE JoinDot(_)
JoinDot(parts) ==
    IF Len(parts) = 0 THEN <<>>
    ELSE IF Len(parts) = 1 THEN <<parts[1]>>
    ELSE <<parts[1], ".">> \o JoinDot(Tail(parts))

endswith(s, suffix) ==
    /\ Len(suffix) <= Len(s)
    /\ SubSeq(s, Len(s) - Len(suffix) + 1, Len(s)) = suffix

startswith(s, prefix) ==
    /\ Len(prefix) <= Len(s)
    /\ SubSeq(s, 1, Len(prefix)) = prefix

\* rootURL: scheme + "://" + netloc + "/", the site whose robots.txt is asked.
rootURL(url) == <<url.scheme, "://">> \o JoinDot(url.netloc) \o <<"/">>

\* get_site_root: scheme + "://" + the last two labels of the host.
get_site_root(url) ==
    LET domain_parts == url.netloc
        kept == IF Len(domain_parts) > 2
                THEN SubSeq(domain_parts, Len(domain_parts) - 1, Len(domain_parts))
                ELSE domain_parts
    IN  <<url.scheme, "://">> \o JoinDot(kept)

calculate_vote_weight(current_root, target_root) ==
    IF current_root = target_root THEN SameRootWeight
    ELSE IF \/ endswith(target_root, <<".">> \o current_root)
            \/ endswith(current_root, <<".">> \o target_root)
         THEN SubdomainWeight
         ELSE OtherWeight

\* ------------------------------------------------------- values and pages
\* What crawl_site returns: None, the list [] of line 63, or response.text.
\* A text is known by its length (0 is the empty string '') and by the
\* absolute link targets extract_links finds in it.
NoneVal == [kind |-> "None", size |-> 0, hrefs |-> <<>>]
EmptyList == [kind |-> "list", size |-> 0, hrefs |-> <<>>]
Text(size, hrefs) == [kind |-> "str", size |-> size, hrefs |-> hrefs]
Truthy(v) == v.kind # "None" /\ v.size > 0

\* extract_links(html, base_url): the hrefs of the page, already joined to
\* base_url by urljoin and filtered by the second pattern.
extract_links(html, base_url) == html.hrefs

\* robots_txt: None, or the Disallow paths of the 'User-agent: *' group.
NoRobots == [kind |-> "None", disallow |-> <<>>]
Robots(paths) == [kind |-> "str", disallow |-> paths]
RobotsTruthy(r) == r.kind # "None" /\ Len(r.disallow) > 0

\* RobotFileParser.can_fetch('*', url): no Disallow path is a prefix of the
\* URL's path (the host of the URL is not looked at).
is_allowed_to_crawl(robots_txt, url) ==
    \A i \in 1..Len(robots_txt.disallow) :
        ~startswith(url.path, robots_txt.disallow[i])

\* ------------------------------------------------------------- the web
\* What the servers answer: pages[u] is the body served at u, server[u] the
\* status codes of the successive GETs of u (0 is a connection error; the
\* last code repeats), robots the answer to GET https://a.com/robots.txt.
Page(hrefs) == Text(1, hrefs)
Leaf == Page(<<>>)
NoPages == [u \in AllUrls |-> Leaf]
AllOk == [u \in AllUrls |-> <<200>>]
Web(pages, server, robots) == [pages |-> pages, server |-> server, robots |-> robots]
RobotsMissing == [status |-> 404, text |-> NoRobots]
RobotsPrivate == [status |-> 200, text |-> Robots(<< <<"/", "private">> >>)]

\* https://a.com/ links to /x and to https://b.com/y.
WebFixture ==
    Web([NoPages EXCEPT ![UrlS] = Page(<<UrlX, UrlY>>)], AllOk, RobotsMissing)
\* /private is linked from / and from /x; robots.txt disallows it.
GatePages ==
    [NoPages EXCEPT ![UrlS] = Page(<<UrlX, UrlP>>), ![UrlX] = Page(<<UrlP>>),
                    ![UrlP] = Page(<<UrlY>>)]
WebGate == Web(GatePages, AllOk, RobotsPrivate)
WebNoGate == Web(GatePages, AllOk, RobotsMissing)
\* https://b.com/y is rate limited; https://shop.a.com/z is linked twice.
RetryPages == [NoPages EXCEPT ![UrlS] = Page(<<UrlZ, UrlY, UrlZ>>)]
WebRetry(codes) ==
    Web(RetryPages, [AllOk EXCEPT ![UrlY] = codes], RobotsMissing)
\* /x answers 200 with an empty body.
WebEmpty ==
    Web([NoPages EXCEPT ![UrlS] = Page(<<UrlX>>), ![UrlX] = Text(0, <<>>)],
        AllOk, RobotsMissing)
\* https://a.com/ links to https://b.com/y and https://b.com/private; the
\* robots.txt of a.com disallows /private.
WebCross ==
    Web([NoPages EXCEPT ![UrlS] = Page(<<UrlY, UrlQ>>)], AllOk, RobotsPrivate)
Webs ==
    {WebFixture, WebGate, WebNoGate, WebEmpty, WebCross, WebRetry(<<0, 200>>),
     WebRetry(<<429, 200>>), WebRetry(<<429, 429, 200>>),
     WebRetry(<<429, 429, 429, 200>>), WebRetry(<<404>>), WebRetry(<<0>>)}

Response(web, url, n) ==
    LET codes == web.server[url]
    IN  codes[IF n <= Len(codes) THEN n ELSE Len(codes)]

\* get_robots_txt: the text of robots.txt, None when the request fails.
get_robots_txt(web, url) ==
    IF web.robots.status = 200 THEN web.robots.text ELSE NoRobots

\* ---------------------------------------------------------------- state
VARIABLES
    web,              \* the servers' answers (fixed during a behaviour)
    main_pc,          \* the main thread: "idle", "joining", "returned"
    max_depth,        \* search_all_urls' max_depth
    robots_txt,       \* search_all_urls' robots_txt
    fetch_threads,    \* number of fetcher threads started (line 175-177)
    start_urls,       \* the frontier list of (url, depth)
    visited,          \* global visited
    html_queue,       \* global html_queue, a FIFO of (url, html, depth)
    unfinished_tasks, \* html_queue's count of put() minus task_done()
    result_dict,      \* global result_dict
    vote_counts,      \* global vote_counts (hundredths)
    visited_lock,     \* holder of visited_lock
    result_lock,      \* holder of result_lock
    fetcher,          \* per fetcher thread: pc and locals
    processor,        \* the processor thread: pc and locals
    progress,         \* the tqdm thread: pc
    hist,             \* history: per URL counts of what was done to it
    enqueued,         \* history: every entry ever placed in start_urls
    exits,            \* history: how each thread that left its loop found the pipeline
    wcall,            \* a call of calculate_vote_weight on its own
    calls             \* number of calls of search_all_urls so far

crawl_vars ==
    <<web, main_pc, max_depth, robots_txt, fetch_threads, start_urls, visited,
      html_queue, unfinished_tasks, result_dict, vote_counts, visited_lock,
      result_lock, fetcher, processor, progress, hist, enqueued, exits, calls>>
vars == <<crawl_vars, wcall>>

Fetchers == 1..MaxFetchers
Free == <<"free", 0>>
FetcherId(i) == <<"fetcher", i>>
ProcessorId == <<"processor", 0>>
ProgressId == <<"progress", 0>>

EmptyMap == [x \in {} |-> 0]
Put(map, key, value) == [x \in DOMAIN map \cup {key} |-> IF x = key THEN value ELSE map[x]]

IdleFetcher == [pc |-> "none", url |-> UrlS, depth |-> 0, attempt |-> 0, html |-> NoneVal]
IdleProcessor ==
    [pc |-> "none", url |-> UrlS, html |-> NoneVal, depth |-> 0,
     found_urls |-> <<>>, idx |-> 0]
IdleProgress == [pc |-> "none"]
NoHist ==
    [claims |-> 0, crawls |-> 0, gets |-> 0, n429 |-> 0, puts |-> 0, keys |-> 0,
     processed |-> 0, depth |-> 0, outcome |-> "none"]
NoCall == [cur |-> <<>>, tgt |-> <<>>, out |-> -1]

Bump(h, url, field) == [h EXCEPT ![url][field] = @ + 1]

\* Nothing is claimed and not yet through: every started fetcher is between
\* two URLs, the processor is waiting on the queue.
InFlight ==
    \/ \E i \in Fetchers : fetcher[i].pc \in {"crawl", "request", "put"}
    \/ processor.pc \in {"with_result", "for", "with_visited", "enqueue"}
Quiescent == start_urls = <<>> /\ html_queue = <<>> /\ ~InFlight

CrawlInit ==
    /\ main_pc = "idle"
    /\ max_depth = 0
    /\ robots_txt = NoRobots
    /\ fetch_threads = 0
    /\ start_urls = <<>>
    /\ visited = {}
    /\ html_queue = <<>>
    /\ unfinished_tasks = 0
    /\ result_dict = EmptyMap
    /\ vote_counts = EmptyMap
    /\ visited_lock = Free
    /\ result_lock = Free
    /\ fetcher = [i \in Fetchers |-> IdleFetcher]
    /\ processor = IdleProcessor
    /\ progress = IdleProgress
    /\ hist = [u \in AllUrls |-> NoHist]
    /\ enqueued = {}
    /\ exits = {}
    /\ calls = 0

Init ==
    /\ web \in Webs
    /\ CrawlInit
    /\ wcall = NoCall

\* --------------------------------------------------------- main thread
\* __main__ lines 202-207 and search_all_urls lines 167-185: read the depth,
\* fetch robots.txt, reset the globals, seed the frontier, start the threads.
search_all_urls_start ==
    /\ main_pc = "idle"
    /\ \E depth \in 0..MaxDepth, n \in 1..MaxFetchers :
          /\ max_depth' = depth
          /\ fetch_threads' = n
          /\ fetcher' = [i \in Fetchers |->
                           IF i <= n THEN [IdleFetcher EXCEPT !.pc = "while"]
                           ELSE IdleFetcher]
    /\ robots_txt' = get_robots_txt(web, UrlS)
    /\ visited' = {}
    /\ result_dict' = EmptyMap
    /\ vote_counts' = EmptyMap
    /\ start_urls' = << <<UrlS, 1>> >>
    /\ enqueued' = {<<UrlS, 1, 0>>}
    /\ processor' = [IdleProcessor EXCEPT !.pc = "get"]
    /\ progress' = [IdleProgress EXCEPT !.pc = "with"]
    /\ main_pc' = "joining"
    /\ calls' = calls + 1
    /\ UNCHANGED <<web, html_queue, unfinished_tasks, visited_lock, result_lock,
                   hist, exits, wcall>>

AllExited ==
    /\ \A i \in Fetchers : fetcher[i].pc \in {"none", "done", "dead"}
    /\ processor.pc = "done"
    /\ progress.pc = "done"

\* search_all_urls lines 187-190: join every thread, return the globals.
search_all_urls_return ==
    /\ main_pc = "joining"
    /\ AllExited
    /\ main_pc' = "returned"
    /\ UNCHANGED <<web, max_depth, robots_txt, fetch_threads, start_urls, visited,
                   html_queue, unfinished_tasks, result_dict, vote_counts,
                   visited_lock, result_lock, fetcher, processor, progress, hist,
                   enqueued, exits, wcall, calls>>

\* ------------------------------------------------------- fetcher_thread
Exit(id) == exits \cup {<<id, Quiescent>>}

\* Line 99, `while start_urls:`, read without the lock.
fetcher_while(i) ==
    /\ fetcher[i].pc = "while"
    /\ IF start_urls # <<>>
       THEN /\ fetcher' = [fetcher EXCEPT ![i].pc = "with"]
            /\ exits' = exits
       ELSE /\ fetcher' = [fetcher EXCEPT ![i].pc = "done"]
            /\ exits' = Exit(FetcherId(i))
    /\ UNCHANGED <<web, main_pc, max_depth, robots_txt, fetch_threads, start_urls,
                   visited, html_queue, unfinished_tasks, result_dict, vote_counts,
                   visited_lock, result_lock, processor, progress, hist, enqueued,
                   wcall, calls>>

\* Line 100, `with visited_lock:`.
fetcher_with(i) ==
    /\ fetcher[i].pc = "with"
    /\ visited_lock = Free
    /\ visited_lock' = FetcherId(i)
    /\ fetcher' = [fetcher EXCEPT ![i].pc = "claim"]
    /\ UNCHANGED <<web, main_pc, max_depth, robots_txt, fetch_threads, start_urls,
                   visited, html_queue, unfinished_tasks, result_dict, vote_counts,
                   result_lock, processor, progress, hist, enqueued, exits, wcall, calls>>

\* skip_entry without its visited test.
skip_entry_depth_only(url, depth) == depth > max_depth

\* Line 104, `url in visited or depth > max_depth`.
skip_entry(url, depth) == url \in visited \/ depth > max_depth

\* break_on_empty without the second look at the frontier.
break_never(urls) == FALSE

\* Lines 101-102, `if not start_urls: break`, under the lock.
break_on_empty(urls) == urls = <<>>

\* Lines 101-106 and the release of the lock: break on an empty frontier, else
\* pop the head, skip it or add it to visited. pop(0) on an empty list raises
\* IndexError, which nothing catches: the with block releases the lock and the
\* thread ends.
fetcher_claim(i) ==
    /\ fetcher[i].pc = "claim"
    /\ visited_lock = FetcherId(i)
    /\ visited_lock' = Free
    /\ IF break_on_empty(start_urls)
       THEN /\ fetcher' = [fetcher EXCEPT ![i].pc = "done"]
            /\ exits' = Exit(FetcherId(i))
            /\ UNCHANGED <<start_urls, visited, hist>>
       ELSE IF start_urls = <<>>
       THEN /\ fetcher' = [fetcher EXCEPT ![i].pc = "dead"]
            /\ exits' = Exit(FetcherId(i))
            /\ UNCHANGED <<start_urls, visited, hist>>
       ELSE LET url == Head(start_urls)[1]
                depth == Head(start_urls)[2]
            IN  /\ start_urls' = Tail(start_urls)
                /\ exits' = exits
                /\ IF skip_entry(url, depth)
                   THEN /\ fetcher' = [fetcher EXCEPT ![i].pc = "while"]
                        /\ UNCHANGED <<visited, hist>>
                   ELSE /\ visited' = visited \cup {url}
                        /\ hist' = [Bump(hist, url, "claims") EXCEPT ![url]["depth"] = depth]
                        /\ fetcher' = [fetcher EXCEPT ![i] =
                               [pc |-> "crawl", url |-> url, depth |-> depth,
                                attempt |-> 0, html |-> NoneVal]]
    /\ UNCHANGED <<web, main_pc, max_depth, robots_txt, fetch_threads, html_queue,
                   unfinished_tasks, result_dict, vote_counts, result_lock,
                   processor, progress, enqueued, wcall, calls>>

\* crawl_site lines 62-65: the robots gate, then attempt = 0.
crawl_site_enter(i) ==
    /\ fetcher[i].pc = "crawl"
    /\ LET url == fetcher[i].url
       IN  IF RobotsTruthy(robots_txt) /\ ~is_allowed_to_crawl(robots_txt, url)
           THEN /\ fetcher' = [fetcher EXCEPT ![i].pc = "put", ![i].html = EmptyList]
                /\ hist' = [Bump(hist, url, "crawls") EXCEPT ![url]["outcome"] = "disallowed"]
           ELSE /\ fetcher' = [fetcher EXCEPT ![i].pc = "request", ![i].attempt = 0]
                /\ hist' = Bump(hist, url, "crawls")
    /\ UNCHANGED <<web, main_pc, max_depth, robots_txt, fetch_threads, start_urls,
                   visited, html_queue, unfinished_tasks, result_dict, vote_counts,
                   visited_lock, result_lock, processor, progress, enqueued, exits,
                   wcall, calls>>

\* may_attempt with one attempt too many.
may_attempt_once_more(attempt) == attempt <= retries

\* Line 66, `while attempt < retries`.
may_attempt(attempt) == attempt < retries

\* crawl_site lines 66-81, one turn of the loop: GET, then retry on 429,
\* return the text on 200, return None on an error status or an exception.
crawl_site_get(i) ==
    /\ fetcher[i].pc = "request"
    /\ may_attempt(fetcher[i].attempt)
    /\ LET url == fetcher[i].url
           status_code == Response(web, url, hist[url].gets + 1)
           got == Bump(hist, url, "gets")
       IN  IF status_code = 429
           THEN /\ fetcher' = [fetcher EXCEPT ![i].attempt = @ + 1]
                /\ hist' = Bump(got, url, "n429")
           ELSE IF status_code = 200
           THEN /\ fetcher' = [fetcher EXCEPT ![i].pc = "put", ![i].html = web.pages[url]]
                /\ hist' = [got EXCEPT ![url]["outcome"] =
                               IF Truthy(web.pages[url]) THEN "ok" ELSE "empty"]
           ELSE /\ fetcher' = [fetcher EXCEPT ![i].pc = "put", ![i].html = NoneVal]
                /\ hist' = [got EXCEPT ![url]["outcome"] = "error"]
    /\ UNCHANGED <<web, main_pc, max_depth, robots_txt, fetch_threads, start_urls,
                   visited, html_queue, unfinished_tasks, result_dict, vote_counts,
                   visited_lock, result_lock, processor, progress, enqueued, exits,
                   wcall, calls>>

\* crawl_site line 83: the attempts are used up, return None.
crawl_site_give_up(i) ==
    /\ fetcher[i].pc = "request"
    /\ ~may_attempt(fetcher[i].attempt)
    /\ fetcher' = [fetcher EXCEPT ![i].pc = "put", ![i].html = NoneVal]
    /\ hist' = [hist EXCEPT ![fetcher[i].url]["outcome"] = "exhausted"]
    /\ UNCHANGED <<web, main_pc, max_depth, robots_txt, fetch_threads, start_urls,
                   visited, html_queue, unfinished_tasks, result_dict, vote_counts,
                   visited_lock, result_lock, processor, progress, enqueued, exits,
                   wcall, calls>>

\* Lines 109-110: `if html: html_queue.put((url, html, depth))`, back to line 99.
fetcher_put(i) ==
    /\ fetcher[i].pc = "put"
    /\ LET url == fetcher[i].url
           html == fetcher[i].html
       IN  IF Truthy(html)
           THEN /\ html_queue' = Append(html_queue, <<url, html, fetcher[i].depth>>)
                /\ unfinished_tasks' = unfinished_tasks + 1
                /\ hist' = Bump(hist, url, "puts")
           ELSE UNCHANGED <<html_queue, unfinished_tasks, hist>>
    /\ fetcher' = [fetcher EXCEPT ![i] = [IdleFetcher EXCEPT !.pc = "while"]]
    /\ UNCHANGED <<web, main_pc, max_depth, robots_txt, fetch_threads, start_urls,
                   visited, result_dict, vote_counts, visited_lock, result_lock,
                   processor, progress, enqueued, exits, wcall, calls>>

\* ----------------------------------------------------- processor_thread
\* Lines 116 and 122-123: an item is taken from the queue, its links extracted.
processor_get ==
    /\ processor.pc = "get"
    /\ html_queue # <<>>
    /\ LET item == Head(html_queue)
       IN  processor' = [pc |-> "with_result", url |-> item[1], html |-> item[2],
                         depth |-> item[3],
                         found_urls |-> extract_links(item[2], item[1]), idx |-> 1]
    /\ html_queue' = Tail(html_queue)
    /\ UNCHANGED <<web, main_pc, max_depth, robots_txt, fetch_threads, start_urls,
                   visited, unfinished_tasks, result_dict, vote_counts, visited_lock,
                   result_lock, fetcher, progress, hist, enqueued, exits, wcall, calls>>

\* Lines 116-117: the queue stayed empty for the whole timeout, get() raises.
processor_timeout ==
    /\ processor.pc = "get"
    /\ html_queue = <<>>
    /\ processor' = [processor EXCEPT !.pc = "except"]
    /\ UNCHANGED <<web, main_pc, max_depth, robots_txt, fetch_threads, start_urls,
                   visited, html_queue, unfinished_tasks, result_dict, vote_counts,
                   visited_lock, result_lock, fetcher, progress, hist, enqueued,
                   exits, wcall, calls>>

\* Lines 118-120: leave the loop when the frontier is empty, else try again.
processor_except ==
    /\ processor.pc = "except"
    /\ IF start_urls = <<>>
       THEN /\ processor' = [processor EXCEPT !.pc = "done"]
            /\ exits' = Exit(ProcessorId)
       ELSE /\ processor' = [processor EXCEPT !.pc = "get"]
            /\ exits' = exits
    /\ UNCHANGED <<web, main_pc, max_depth, robots_txt, fetch_threads, start_urls,
                   visited, html_queue, unfinished_tasks, result_dict, vote_counts,
                   visited_lock, result_lock, fetcher, progress, hist, enqueued,
                   wcall, calls>>

\* Lines 125-127: take result_lock, create the page's entry if it has none.
processor_with_result ==
    /\ processor.pc = "with_result"
    /\ result_lock = Free
    /\ result_lock' = ProcessorId
    /\ LET url == processor.url
       IN  IF url \notin DOMAIN result_dict
           THEN /\ result_dict' = Put(result_dict, url, <<>>)
                /\ hist' = Bump(hist, url, "keys")
           ELSE UNCHANGED <<result_dict, hist>>
    /\ processor' = [processor EXCEPT !.pc = "for"]
    /\ UNCHANGED <<web, main_pc, max_depth, robots_txt, fetch_threads, start_urls,
                   visited, html_queue, unfinished_tasks, vote_counts, visited_lock,
                   fetcher, progress, enqueued, exits, wcall, calls>>

\* processor_vote with the vote counted only for a link that is followed.
processor_vote_if_followed ==
    /\ processor.pc = "for"
    /\ processor.idx <= Len(processor.found_urls)
    /\ LET new_url == processor.found_urls[processor.idx]
           current_root == get_site_root(processor.url)
           new_root == get_site_root(new_url)
           weight == calculate_vote_weight(current_root, new_root)
           old == IF new_root \in DOMAIN vote_counts THEN vote_counts[new_root] ELSE 0
       IN  IF new_url \notin visited /\ processor.depth + 1 <= max_depth
           THEN vote_counts' = Put(vote_counts, new_root, old + weight)
           ELSE vote_counts' = vote_counts
    /\ processor' = [processor EXCEPT !.pc = "with_visited"]
    /\ UNCHANGED <<web, main_pc, max_depth, robots_txt, fetch_threads, start_urls,
                   visited, html_queue, unfinished_tasks, result_dict, visited_lock,
                   result_lock, fetcher, progress, hist, enqueued, exits, wcall, calls>>

\* Lines 129-132: the next link's vote is added to its site root.
processor_vote ==
    /\ processor.pc = "for"
    /\ processor.idx <= Len(processor.found_urls)
    /\ LET new_url == processor.found_urls[processor.idx]
           current_root == get_site_root(processor.url)
           new_root == get_site_root(new_url)
           weight == calculate_vote_weight(current_root, new_root)
           old == IF new_root \in DOMAIN vote_counts THEN vote_counts[new_root] ELSE 0
       IN  vote_counts' = Put(vote_counts, new_root, old + weight)
    /\ processor' = [processor EXCEPT !.pc = "with_visited"]
    /\ UNCHANGED <<web, main_pc, max_depth, robots_txt, fetch_threads, start_urls,
                   visited, html_queue, unfinished_tasks, result_dict, visited_lock,
                   result_lock, fetcher, progress, hist, enqueued, exits, wcall, calls>>

\* Line 134, `with visited_lock:`.
processor_with_visited ==
    /\ processor.pc = "with_visited"
    /\ visited_lock = Free
    /\ visited_lock' = ProcessorId
    /\ processor' = [processor EXCEPT !.pc = "enqueue"]
    /\ UNCHANGED <<web, main_pc, max_depth, robots_txt, fetch_threads, start_urls,
                   visited, html_queue, unfinished_tasks, result_dict, vote_counts,
                   result_lock, fetcher, progress, hist, enqueued, exits, wcall, calls>>

\* follow_link without its depth test.
follow_link_any_depth(new_url, depth) == new_url \notin visited

\* Line 135, `new_url not in visited and depth + 1 <= max_depth`.
follow_link(new_url, depth) == new_url \notin visited /\ depth + 1 <= max_depth

\* Lines 135-137 and the release of visited_lock: a link that is followed is
\* appended to the frontier and to the page's entry.
processor_enqueue ==
    /\ processor.pc = "enqueue"
    /\ visited_lock = ProcessorId
    /\ visited_lock' = Free
    /\ LET url == processor.url
           depth == processor.depth
           new_url == processor.found_urls[processor.idx]
       IN  IF follow_link(new_url, depth)
           THEN /\ start_urls' = Append(start_urls, <<new_url, depth + 1>>)
                /\ result_dict' = [result_dict EXCEPT ![url] = Append(@, new_url)]
                /\ enqueued' = enqueued \cup {<<new_url, depth + 1, depth>>}
           ELSE UNCHANGED <<start_urls, result_dict, enqueued>>
    /\ processor' = [processor EXCEPT !.pc = "for", !.idx = @ + 1]
    /\ UNCHANGED <<web, main_pc, max_depth, robots_txt, fetch_threads, visited,
                   html_queue, unfinished_tasks, vote_counts, result_lock, fetcher,
                   progress, hist, exits, wcall, calls>>

\* The end of the for loop, the release of result_lock and line 139.
processor_task_done ==
    /\ processor.pc = "for"
    /\ processor.idx > Len(processor.found_urls)
    /\ result_lock = ProcessorId
    /\ result_lock' = Free
    /\ unfinished_tasks' = unfinished_tasks - 1
    /\ hist' = Bump(hist, processor.url, "processed")
    /\ processor' = [IdleProcessor EXCEPT !.pc = "get"]
    /\ UNCHANGED <<web, main_pc, max_depth, robots_txt, fetch_threads, start_urls,
                   visited, html_queue, result_dict, vote_counts, visited_lock,
                   fetcher, progress, enqueued, exits, wcall, calls>>

\* ---------------------------------------------------------- tqdm_thread
\* Line 145, `with visited_lock:`.
tqdm_with ==
    /\ progress.pc = "with"
    /\ visited_lock = Free
    /\ visited_lock' = ProgressId
    /\ progress' = [progress EXCEPT !.pc = "read"]
    /\ UNCHANGED <<web, main_pc, max_depth, robots_txt, fetch_threads, start_urls,
                   visited, html_queue, unfinished_tasks, result_dict, vote_counts,
                   result_lock, fetcher, processor, hist, enqueued, exits, wcall, calls>>

\* tqdm_refresh without the release of visited_lock at the end of the with block.
tqdm_refresh_keeps_lock ==
    /\ progress.pc = "read"
    /\ visited_lock = ProgressId
    /\ progress' = [progress EXCEPT !.pc = "sleep"]
    /\ UNCHANGED <<web, main_pc, max_depth, robots_txt, fetch_threads, start_urls,
                   visited, html_queue, unfinished_tasks, result_dict, vote_counts,
                   visited_lock, result_lock, fetcher, processor, hist, enqueued,
                   exits, wcall, calls>>

\* Lines 146-151: the two lengths are read under the lock, the lock is released
\* and the bar is redrawn. pbar.total and pbar.n are only ever written, for
\* display, so the thread is known by its position and its use of the lock.
tqdm_refresh ==
    /\ progress.pc = "read"
    /\ visited_lock = ProgressId
    /\ visited_lock' = Free
    /\ progress' = [progress EXCEPT !.pc = "sleep"]
    /\ UNCHANGED <<web, main_pc, max_depth, robots_txt, fetch_threads, start_urls,
                   visited, html_queue, unfinished_tasks, result_dict, vote_counts,
                   result_lock, fetcher, processor, hist, enqueued, exits, wcall, calls>>

\* Lines 153-155: after the sleep, leave when frontier and queue are empty.
tqdm_check ==
    /\ progress.pc = "sleep"
    /\ IF start_urls = <<>> /\ html_queue = <<>>
       THEN progress' = [progress EXCEPT !.pc = "done"]
       ELSE progress' = [progress EXCEPT !.pc = "with"]
    /\ UNCHANGED <<web, main_pc, max_depth, robots_txt, fetch_threads, start_urls,
                   visited, html_queue, unfinished_tasks, result_dict, vote_counts,
                   visited_lock, result_lock, fetcher, processor, hist, enqueued,
                   exits, wcall, calls>>

\* ------------------------------------------------------- specifications
Next ==
    \/ search_all_urls_start
    \/ search_all_urls_return
    \/ \E i \in Fetchers : fetcher_while(i)
    \/ \E i \in Fetchers : fetcher_with(i)
    \/ \E i \in Fetchers : fetcher_claim(i)
    \/ \E i \in Fetchers : crawl_site_enter(i)
    \/ \E i \in Fetchers : crawl_site_get(i)
    \/ \E i \in Fetchers : crawl_site_give_up(i)
    \/ \E i \in Fetchers : fetcher_put(i)
    \/ processor_get
    \/ processor_timeout
    \/ processor_except
    \/ processor_with_result
    \/ processor_vote
    \/ processor_with_visited
    \/ processor_enqueue
    \/ processor_task_done
    \/ tqdm_with
    \/ tqdm_refresh
    \/ tqdm_check

Spec == Init /\ [][Next]_vars

\* A further call of search_all_urls in the same process (lines 167-185): the
\* three globals of line 167 are rebound, html_queue is not. The history
\* starts afresh with the call.
search_all_urls_again ==
    /\ main_pc = "returned"
    /\ calls < MaxCalls
    /\ \E depth \in 0..MaxDepth, n \in 1..MaxFetchers :
          /\ max_depth' = depth
          /\ fetch_threads' = n
          /\ fetcher' = [i \in Fetchers |->
                           IF i <= n THEN [IdleFetcher EXCEPT !.pc = "while"]
                           ELSE IdleFetcher]
    /\ robots_txt' = get_robots_txt(web, UrlS)
    /\ visited' = {}
    /\ result_dict' = EmptyMap
    /\ vote_counts' = EmptyMap
    /\ start_urls' = << <<UrlS, 1>> >>
    /\ enqueued' = {<<UrlS, 1, 0>>}
    /\ processor' = [IdleProcessor EXCEPT !.pc = "get"]
    /\ progress' = [IdleProgress EXCEPT !.pc = "with"]
    /\ main_pc' = "joining"
    /\ calls' = calls + 1
    /\ hist' = [u \in AllUrls |-> NoHist]
    /\ exits' = {}
    /\ UNCHANGED <<web, html_queue, unfinished_tasks, visited_lock, result_lock, wcall>>

NextCalls == Next \/ search_all_urls_again

SpecCalls == Init /\ [][NextCalls]_vars

\* Fair scheduling: a thread that can take a step again and again takes it.
FetcherNext(i) ==
    \/ fetcher_while(i)
    \/ fetcher_with(i)
    \/ fetcher_claim(i)
    \/ crawl_site_enter(i)
    \/ crawl_site_get(i)
    \/ crawl_site_give_up(i)
    \/ fetcher_put(i)
ProcessorNext ==
    \/ processor_get
    \/ processor_timeout
    \/ processor_except
    \/ processor_with_result
    \/ processor_vote
    \/ processor_with_visited
    \/ processor_enqueue
    \/ processor_task_done
ProgressNext == tqdm_with \/ tqdm_refresh \/ tqdm_check
MainNext == search_all_urls_start \/ search_all_urls_return

FairSpec ==
    /\ Spec
    /\ \A i \in Fetchers : SF_vars(FetcherNext(i))
    /\ SF_vars(ProcessorNext)
    /\ SF_vars(ProgressNext)
    /\ SF_vars(MainNext)

\* calculate_vote_weight on its own: the two roots are drawn from the site
\* roots of a few hosts, then the function is applied.
RootHosts ==
    {<<"a", "com">>, <<"b", "com">>, <<"shop", "a", "com">>, <<"example", "com">>,
     <<"shop", "example", "com">>, <<"com">>}
RootInputs == {<<scheme, "://">> \o JoinDot(h) : scheme \in {"http", "https"}, h \in RootHosts}

InitWeight ==
    /\ web = WebFixture
    /\ CrawlInit
    /\ wcall \in [cur : RootInputs, tgt : RootInputs, out : {-1}]

weight_call ==
    /\ wcall.out = -1
    /\ wcall' = [wcall EXCEPT !.out = calculate_vote_weight(wcall.cur, wcall.tgt)]
    /\ UNCHANGED crawl_vars

NextWeight == weight_call

SpecWeight == InitWeight /\ [][NextWeight]_vars

\* ================================================================ claims
Returned == main_pc = "returned"
InFrontier(url) == \E k \in 1..Len(start_urls) : start_urls[k][1] = url
Elements(seq) == {seq[k] : k \in 1..Len(seq)}

\* C1. At-most-once fetch: in every interleaving each URL is added to visited
\* by a fetcher, and passed to crawl_site, at most once, also when the frontier
\* holds the URL several times.
C1_AtMostOnceFetch ==
    \A u \in AllUrls : hist[u].claims <= 1 /\ hist[u].crawls <= 1

\* A URL has been claimed and crawled while a second frontier entry for it is
\* still waiting, and two fetchers are running.
C1_Witness ==
    /\ fetch_threads = 2
    /\ \E u \in AllUrls : hist[u].claims = 1 /\ hist[u].crawls = 1 /\ InFrontier(u)

\* C2. Termination: with max_depth >= 1, on an acyclic link graph, under fair
\* scheduling, a call of search_all_urls eventually returns.
C2_Termination ==
    (main_pc = "joining" /\ max_depth >= 1) ~> Returned

\* C3. No lost page: when search_all_urls returns, every URL whose fetch
\* returned a non-empty body is a key of result_dict.
C3_NoLostPage ==
    Returned => \A u \in AllUrls : hist[u].outcome = "ok" => u \in DOMAIN result_dict

\* C4. Completion condition: a fetcher or the processor leaves its loop only
\* when the frontier is empty, the queue is empty and no claimed URL is still
\* being fetched or processed.
C4_ExitOnlyWhenQuiescent ==
    \A e \in exits : e[2]

\* C5. Unconditional edge recording: once a page is processed its entry is the
\* sequence of all links extracted from it, in order; on the fixture with
\* max_depth 1 neither link is fetched.
C5_EdgesUnconditional ==
    /\ \A u \in AllUrls :
          hist[u].processed >= 1 => result_dict[u] = extract_links(web.pages[u], u)
    /\ (web = WebFixture /\ main_pc # "idle" /\ max_depth = 1) =>
          hist[UrlX].gets = 0 /\ hist[UrlY].gets = 0

\* C6. Depth bound: with max_depth >= 1 every entry ever placed in the frontier
\* has 1 <= depth <= max_depth, the seed has depth 1, an entry found on a page of
\* depth d has depth d + 1, and no URL is fetched deeper than max_depth.
C6_DepthBound ==
    (main_pc # "idle" /\ max_depth >= 1) =>
        /\ \A e \in enqueued : 1 <= e[2] /\ e[2] <= max_depth /\ e[2] = e[3] + 1
        /\ <<UrlS, 1, 0>> \in enqueued
        /\ \A u \in AllUrls : hist[u].claims >= 1 => hist[u].depth <= max_depth
        /\ \A i \in Fetchers : fetcher[i].depth <= max_depth

\* A page at depth max_depth whose links were refused has been processed, and
\* an entry found on a page is in the frontier's history.
C6_Witness ==
    /\ max_depth >= 1
    /\ \E e \in enqueued : e[3] >= 1
    /\ \E u \in AllUrls :
          /\ hist[u].processed >= 1
          /\ hist[u].depth = max_depth
          /\ extract_links(web.pages[u], u) # <<>>

\* C7. Robots gating: when robots.txt disallows /private and max_depth >= 2,
\* every processed page that links to /private has the edge in its entry, no
\* GET is issued for /private and /private is never a key of result_dict.
C7_RobotsGating ==
    (/\ main_pc # "idle"
     /\ RobotsTruthy(robots_txt)
     /\ ~is_allowed_to_crawl(robots_txt, UrlP)
     /\ max_depth >= 2) =>
        /\ hist[UrlP].gets = 0
        /\ UrlP \notin DOMAIN result_dict
        /\ \A u \in AllUrls :
              (hist[u].processed >= 1 /\ UrlP \in Elements(extract_links(web.pages[u], u)))
                  => UrlP \in Elements(result_dict[u])

\* C8. Retry success: a URL answered 429 on its first k < retries attempts and
\* 200 on the next is, when the crawl returns, put on the queue exactly once
\* and recorded exactly once as a key of result_dict.
C8_RetrySuccess ==
    Returned =>
        \A u \in AllUrls :
            (hist[u].outcome = "ok" /\ hist[u].n429 >= 1 /\ hist[u].n429 < retries) =>
                /\ hist[u].puts = 1
                /\ hist[u].keys = 1
                /\ u \in DOMAIN result_dict

\* C9. Vote weight values: 0.1 for equal roots, 0.25 when the host of one root
\* ends with "." and the host of the other (same scheme), 1 otherwise.
RootHost(root) == SubSeq(root, 3, Len(root))
DotBoundarySuffix(long, short) ==
    long[1] = short[1] /\ endswith(RootHost(long), <<".">> \o RootHost(short))
ClaimedWeight(current_root, target_root) ==
    IF current_root = target_root THEN SameRootWeight
    ELSE IF \/ DotBoundarySuffix(current_root, target_root)
            \/ DotBoundarySuffix(target_root, current_root)
         THEN SubdomainWeight
         ELSE OtherWeight
C9_VoteWeightValues ==
    wcall.out # -1 => wcall.out = ClaimedWeight(wcall.cur, wcall.tgt)

\* C10. Order independence: when every fetch succeeds, the vote_counts that
\* search_all_urls returns are those of the crawl that processes each page
\* before the next URL is claimed, whatever the interleaving.
RECURSIVE PageVotes(_, _, _, _)
PageVotes(url, hrefs, k, votes) ==
    IF k > Len(hrefs) THEN votes
    ELSE LET new_root == get_site_root(hrefs[k])
             weight == calculate_vote_weight(get_site_root(url), new_root)
             old == IF new_root \in DOMAIN votes THEN votes[new_root] ELSE 0
         IN  PageVotes(url, hrefs, k + 1, Put(votes, new_root, old + weight))
RECURSIVE PageEntries(_, _, _, _)
PageEntries(hrefs, k, depth, seen) ==
    IF k > Len(hrefs) THEN <<>>
    ELSE (IF hrefs[k] \notin seen /\ depth + 1 <= max_depth
          THEN << <<hrefs[k], depth + 1>> >> ELSE <<>>)
         \o PageEntries(hrefs, k + 1, depth, seen)
RECURSIVE SequentialVotes(_, _, _)
SequentialVotes(frontier, seen, votes) ==
    IF frontier = <<>> THEN votes
    ELSE LET url == Head(frontier)[1]
             depth == Head(frontier)[2]
             hrefs == extract_links(web.pages[url], url)
         IN  IF url \in seen \/ depth > max_depth
             THEN SequentialVotes(Tail(frontier), seen, votes)
             ELSE SequentialVotes(
                      Tail(frontier) \o PageEntries(hrefs, 1, depth, seen \cup {url}),
                      seen \cup {url},
                      PageVotes(url, hrefs, 1, votes))
AllFetchesSucceed ==
    /\ ~RobotsTruthy(robots_txt)
    /\ \A u \in AllUrls : web.server[u] = <<200>> /\ Truthy(web.pages[u])
C10_OrderIndependent ==
    (Returned /\ AllFetchesSucceed) =>
        vote_counts = SequentialVotes(<< <<UrlS, 1>> >>, {}, EmptyMap)

\* C11. Per-site politeness: a URL is fetched only under the robots rules of
\* its own site, and is not denied by the rules of another site (stated for the
\* runs in which the start site's robots.txt was obtained; C16 is the other).
RulesAreOfSite(url) == robots_txt.kind # "None" /\ rootURL(url) = rootURL(UrlS)
C11_PerSitePoliteness ==
    (main_pc # "idle" /\ robots_txt.kind # "None") =>
        \A u \in AllUrls :
            /\ hist[u].gets >= 1 => RulesAreOfSite(u)
            /\ hist[u].outcome = "disallowed" => RulesAreOfSite(u)

\* C12. Run-scoped state: in any sequence of calls of search_all_urls, every
\* key of the result_dict a call returns is a URL claimed during that call, and
\* every page a call processes was put on the queue during that call.
C12_RunScoped ==
    /\ Returned => \A key \in DOMAIN result_dict : hist[key].claims >= 1
    /\ \A u \in AllUrls : hist[u].processed <= hist[u].puts

\* C13. Unconditional vote accumulation: every link extracted from a processed
\* page adds calculate_vote_weight(root of the page, root of the link) to the
\* link's root exactly once, followed or not, so vote_counts is the sum over
\* the links of the processed pages, each page counted as often as it was
\* processed (and over the links of the page in hand handled so far).
RECURSIVE PageVotesTimes(_, _, _)
PageVotesTimes(u, times, votes) ==
    IF times = 0 THEN votes
    ELSE PageVotesTimes(u, times - 1, PageVotes(u, extract_links(web.pages[u], u), 1, votes))
RECURSIVE VotesOfPages(_, _)
VotesOfPages(urls, votes) ==
    IF urls = {} THEN votes
    ELSE LET u == CHOOSE x \in urls : TRUE
         IN  VotesOfPages(urls \ {u}, PageVotesTimes(u, hist[u].processed, votes))
LinksVoted ==
    IF processor.pc = "for" THEN processor.idx - 1
    ELSE IF processor.pc \in {"with_visited", "enqueue"} THEN processor.idx
    ELSE 0
C13_VotesUnconditional ==
    vote_counts =
        PageVotes(processor.url, SubSeq(processor.found_urls, 1, LinksVoted), 1,
                  VotesOfPages({u \in AllUrls : hist[u].processed >= 1}, EmptyMap))

\* A page whose links were not followed has been processed and the crawl has
\* returned with the votes of those links counted.
C13_Witness ==
    /\ Returned
    /\ \E u \in AllUrls :
          /\ hist[u].processed = 1
          /\ Len(extract_links(web.pages[u], u)) >= 2
          /\ result_dict[u] = <<>>
          /\ \A k \in 1..Len(extract_links(web.pages[u], u)) :
                get_site_root(extract_links(web.pages[u], u)[k]) \in DOMAIN vote_counts

\* C14. Retry exhaustion: at most `retries` GETs are issued for a URL; a URL
\* answered 429 on all of them is abandoned: it stays in visited and is claimed
\* once, nothing is put on the queue for it, it is no key of result_dict and is
\* never processed (so it adds no edges and no votes), and the fetcher goes on.
InQueue(url) == \E k \in 1..Len(html_queue) : html_queue[k][1] = url
C14_RetryExhaustion ==
    \A u \in AllUrls :
        /\ hist[u].gets <= retries
        /\ hist[u].outcome = "exhausted" =>
              /\ hist[u].gets = retries /\ hist[u].n429 = retries
              /\ u \in visited /\ hist[u].claims = 1
              /\ hist[u].puts = 0 /\ ~InQueue(u)
              /\ u \notin DOMAIN result_dict /\ hist[u].processed = 0
              /\ \A i \in Fetchers :
                    fetcher[i].pc \in {"none", "while", "with", "claim", "done"}
                        \/ fetcher[i].url # u \/ fetcher[i].pc = "put"

\* The single fetcher gave up https://b.com/y after three answers 429, went
\* back to the frontier and emptied it; the other page was processed.
C14_Witness ==
    /\ fetch_threads = 1
    /\ hist[UrlY].outcome = "exhausted"
    /\ hist[UrlY].gets = retries
    /\ start_urls = <<>>
    /\ fetcher[1].pc \in {"while", "done"}
    /\ hist[UrlZ].processed = 1
    /\ UrlZ \in DOMAIN result_dict

\* C15. Transient errors are retried: a GET that fails with a connection error
\* while attempts are left is followed by another attempt, so a fetch ends in
\* an error only with the attempts used up, and a URL that fails once and then
\* answers 200 is fetched successfully.
C15_TransientRetried ==
    \A u \in AllUrls :
        /\ (hist[u].outcome = "error" /\ Response(web, u, hist[u].gets) = 0)
              => hist[u].gets >= retries
        /\ (hist[u].outcome # "none" /\ web.server[u] = <<0, 200>>)
              => hist[u].outcome = "ok"

\* C16. Robots fetch failure policy: when get_robots_txt returned None, no URL
\* of that site is fetched.
C16_RobotsFailureDenies ==
    (main_pc # "idle" /\ robots_txt.kind = "None") =>
        \A u \in AllUrls : rootURL(u) = rootURL(UrlS) => hist[u].gets = 0

\* C17. Claim before enqueue: a discovered URL is in visited when it is placed
\* in the frontier, the frontier never holds a URL twice, and every entry a
\* fetcher takes from the frontier is fetched (none is skipped).
FrontierUrls == {start_urls[k][1] : k \in 1..Len(start_urls)}
C17_ClaimBeforeEnqueue ==
    /\ \A k \in 1..Len(start_urls) :
          start_urls[k] # <<UrlS, 1>> => start_urls[k][1] \in visited
    /\ Cardinality(FrontierUrls) = Len(start_urls)
    /\ \A e \in enqueued :
          \A f \in enqueued : e[1] = f[1] => e[2] = f[2]

\* C18. Causal order within a call: a page is in the processor's hands, or has
\* been processed, only if its URL was claimed and its fetch returned content
\* during that call; no URL is processed or made a key more than once, and the
\* keys of result_dict are a subset of visited.
InProcessor(u) ==
    /\ processor.pc \in {"with_result", "for", "with_visited", "enqueue"}
    /\ processor.url = u
C18_CausalOrder ==
    /\ \A u \in AllUrls :
          /\ hist[u].processed + (IF InProcessor(u) THEN 1 ELSE 0) <= 1
          /\ hist[u].keys <= 1
          /\ (hist[u].processed >= 1 \/ InProcessor(u)) =>
                /\ u \in visited
                /\ hist[u].outcome = "ok"
    /\ DOMAIN result_dict \subseteq visited

\* C19. Lock ordering is deadlock-free: result_lock is held by the processor
\* alone, from line 125 to the end of its for loop; visited_lock is held by the
\* processor only inside result_lock (lines 134-137), by a fetcher only in
\* lines 100-106 and by the progress thread only in lines 145-147; the holder
\* of visited_lock never waits for a lock: its next step is enabled and
\* releases visited_lock; and the holder of result_lock can step unless it
\* waits for visited_lock, whose holder can step.
WaitsForVisitedLock(id) ==
    \/ \E i \in Fetchers : id = FetcherId(i) /\ fetcher[i].pc = "with"
    \/ id = ProcessorId /\ processor.pc = "with_visited"
    \/ id = ProgressId /\ progress.pc = "with"
C19_LockOrder ==
    /\ result_lock \in {Free, ProcessorId}
    /\ result_lock = ProcessorId <=>
          processor.pc \in {"for", "with_visited", "enqueue"}
    /\ visited_lock = ProcessorId <=> processor.pc = "enqueue"
    /\ \A i \in Fetchers : visited_lock = FetcherId(i) <=> fetcher[i].pc = "claim"
    /\ visited_lock = ProgressId <=> progress.pc = "read"
    /\ visited_lock # Free => ~WaitsForVisitedLock(visited_lock)
    /\ visited_lock = ProcessorId => ENABLED processor_enqueue
    /\ \A i \in Fetchers : visited_lock = FetcherId(i) => ENABLED fetcher_claim(i)
    /\ visited_lock = ProgressId => ENABLED tqdm_refresh
    /\ result_lock = ProcessorId =>
          \/ ENABLED ProcessorNext
          \/ processor.pc = "with_visited" /\ visited_lock \notin {Free, ProcessorId}
\* The processor holds both locks while a fetcher and the progress thread wait
\* for visited_lock.
C19_Witness ==
    /\ result_lock = ProcessorId
    /\ visited_lock = ProcessorId
    /\ WaitsForVisitedLock(ProgressId)
    /\ \E i \in Fetchers : WaitsForVisitedLock(FetcherId(i))

\* C20. Frontier pop is safe: no fetcher thread ends with an exception, and
\* while the threads of a call run, every change of start_urls and of visited
\* is made by the holder of visited_lock: a pop by a fetcher in lines 100-106,
\* on a non-empty list, an append by the processor in lines 134-137, and an
\* addition to visited by a fetcher in lines 100-106.
HeldByFetcherAtClaim ==
    \E i \in Fetchers : visited_lock = FetcherId(i) /\ fetcher[i].pc = "claim"
C20_FrontierPopSafe ==
    /\ [](\A i \in Fetchers : fetcher[i].pc # "dead")
    /\ [][main_pc = "joining" =>
            /\ Len(start_urls') < Len(start_urls) =>
                  /\ HeldByFetcherAtClaim
                  /\ start_urls # <<>>
                  /\ start_urls' = Tail(start_urls)
            /\ Len(start_urls') > Len(start_urls) =>
                  /\ visited_lock = ProcessorId
                  /\ SubSeq(start_urls', 1, Len(start_urls)) = start_urls
            /\ Len(start_urls') = Len(start_urls) => start_urls' = start_urls
            /\ visited' # visited => HeldByFetcherAtClaim]_vars
\* One fetcher has just taken the last entry; another, which saw the frontier
\* non-empty at line 99, now holds the lock over an empty frontier.
C20_Witness ==
    /\ start_urls = <<>>
    /\ \E i \in Fetchers : \E j \in Fetchers :
          /\ i # j
          /\ fetcher[i].pc = "claim"
          /\ visited_lock = FetcherId(i)
          /\ fetcher[j].pc = "crawl"

====
